---------------------------- MODULE Spec2Model ----------------------------
(***************************************************************************)
(* A model of astrbot_plugin_memelite: the keyword matcher                 *)
(* (core/meme.py), the parameter collector (core/param.py) and the plugin  *)
(* handlers (main.py).                                                     *)
(*                                                                         *)
(* Python strings are modelled as sequences of one-character strings, so   *)
(* that split, strip, substring search and isdigit are computed and not    *)
(* assumed.  Optional values are records [kind, val].                      *)
(***************************************************************************)
EXTENDS Integers, Sequences, FiniteSets, TLC

VARIABLES
    \* --- matcher, called on its own (SpecMatch)
    m_text, m_fuzzy, m_result,
    \* --- one run of ParamsCollector.collect_params (SpecCollect)
    c_pc, ev, params, queue, toks, images, texts, options, fetched, result,
    \* --- the plugin (Spec): configuration, the message being handled, the
    \* last command, and the observer of one disable/enable round trip
    conf, saved, h, cmd, probe, trip

m_vars == <<m_text, m_fuzzy, m_result>>
c_vars == <<c_pc, ev, params, queue, toks, images, texts, options, fetched, result>>
p_vars == <<conf, saved, h, cmd, probe, trip>>
vars == <<m_vars, c_vars, p_vars>>

-----------------------------------------------------------------------------
(* Bounds of the model *)

\* longest text handed to match_meme_keyword on its own
MaxTextLen == 4
\* longest message chain handed to collect_params
MaxChain == 2
\* largest min/max image and text count of a constraint set
MaxCount == 2

-----------------------------------------------------------------------------
(* Optional values and raised exceptions *)

None == [kind |-> "None", val |-> <<>>]
Some(v) == [kind |-> "Some", val |-> v]
Raised(e) == [kind |-> "Raised", val |-> <<e>>]
Unset == [kind |-> "Unset", val |-> <<>>]

SeqsUpTo(S, n) == UNION {[1..k -> S] : k \in 0..n}

\* The values of the variables of a part that a specification does not run
NoCollectEvent ==
    [chain |-> <<>>, platform |-> "other", send_id |-> <<>>, self_id |-> <<>>]

NoParams ==
    [min_images |-> 0, max_images |-> 0, min_texts |-> 0, max_texts |-> 0,
     default_texts |-> <<>>]

NoFetch == [sender |-> 0, bot |-> 0]

NoEvent == [message_str |-> <<>>, is_at_or_wake_command |-> FALSE]

Idle ==
    [pc |-> "idle", probe |-> FALSE, keyword |-> None, trip |-> "idle",
     dispatched |-> FALSE, outcome |-> "none", responses |-> <<>>]

NoCmd ==
    [op |-> "none", meme_name |-> <<>>, reply |-> "", saved |-> FALSE,
     before |-> <<>>]

NoTrip == [phase |-> "idle", keyword |-> <<>>]

NoConf ==
    [need_prefix |-> FALSE, extra_prefix |-> <<>>, fuzzy_match |-> FALSE,
     memes_disabled_list |-> <<>>]

-----------------------------------------------------------------------------
(* Python string operations on sequences of characters *)

Whitespace == {" "}
Digits == {"0", "1", "2"}

\* k in text
IsSubstring(k, t) ==
    \E i \in 0..(Len(t) - Len(k)) :
        \A j \in 1..Len(k) : t[i + j] = k[j]

\* text.startswith(p)
StartsWith(t, p) ==
    /\ Len(p) <= Len(t)
    /\ \A j \in 1..Len(p) : t[j] = p[j]

\* text.removeprefix(p)
RemovePrefix(t, p) ==
    IF StartsWith(t, p) THEN SubSeq(t, Len(p) + 1, Len(t)) ELSE t

\* str.isdigit(): non-empty and every character a digit
IsDigit(t) == Len(t) > 0 /\ \A j \in 1..Len(t) : t[j] \in Digits

\* text.strip()
RECURSIVE LStrip(_)
LStrip(t) ==
    IF t # <<>> /\ Head(t) \in Whitespace THEN LStrip(Tail(t)) ELSE t

RECURSIVE RStrip(_)
RStrip(t) ==
    IF t # <<>> /\ t[Len(t)] \in Whitespace
    THEN RStrip(SubSeq(t, 1, Len(t) - 1)) ELSE t

Strip(t) == RStrip(LStrip(t))

\* text.split(sep) for a one-character sep: every separator cuts, empty
\* tokens are kept, the result is never empty
RECURSIVE SplitOn(_, _, _)
SplitOn(t, sep, cur) ==
    IF t = <<>> THEN <<cur>>
    ELSE IF Head(t) = sep THEN <<cur>> \o SplitOn(Tail(t), sep, <<>>)
    ELSE SplitOn(Tail(t), sep, Append(cur, Head(t)))

\* text.split(): runs of whitespace cut, empty tokens are dropped, the result
\* is empty for an empty or all-whitespace text
RECURSIVE SplitWs(_, _)
SplitWs(t, cur) ==
    IF t = <<>> THEN (IF cur = <<>> THEN <<>> ELSE <<cur>>)
    ELSE IF Head(t) \in Whitespace
         THEN (IF cur = <<>> THEN <<>> ELSE <<cur>>) \o SplitWs(Tail(t), <<>>)
    ELSE SplitWs(Tail(t), Append(cur, Head(t)))

\* text.split(sep, 1): <<before, after>> the first sep
RECURSIVE SplitFirst(_, _, _)
SplitFirst(t, sep, cur) ==
    IF t = <<>> THEN <<cur>>
    ELSE IF Head(t) = sep THEN <<cur, Tail(t)>>
    ELSE SplitFirst(Tail(t), sep, Append(cur, Head(t)))

-----------------------------------------------------------------------------
(* The catalog: MemeManager.memes and MemeManager.meme_keywords *)

Params(mi, xi, mt, xt, dt) ==
    [min_images |-> mi, max_images |-> xi, min_texts |-> mt, max_texts |-> xt,
     default_texts |-> dt]

\* get_memes(): "b" is listed before "ab", so a text holding "ab" matches
\* first a shorter keyword that occurs later in it
memes ==
    << [key |-> <<"m", "1">>, keywords |-> << <<"b">> >>,
        params |-> Params(1, 1, 0, 1, <<>>)],
       [key |-> <<"m", "2">>, keywords |-> << <<"a", "b">> >>,
        params |-> Params(0, 2, 1, 2, << <<"d">> >>)] >>

RECURSIVE Flatten(_)
Flatten(ss) == IF ss = <<>> THEN <<>> ELSE Head(ss) \o Flatten(Tail(ss))

meme_keywords == Flatten([i \in 1..Len(memes) |-> memes[i].keywords])

KeywordSet == {meme_keywords[i] : i \in 1..Len(meme_keywords)}

is_meme_keyword(meme_name) == meme_name \in KeywordSet

\* next((xs[i] for i if hit[i]), None): the first element whose flag is set
FirstHit(xs, hit) ==
    IF \E i \in 1..Len(xs) : hit[i]
    THEN Some(xs[CHOOSE i \in 1..Len(xs) :
                    hit[i] /\ \A j \in 1..(i - 1) : ~hit[j]])
    ELSE None

find_meme(keyword) ==
    FirstHit(memes,
             [n \in 1..Len(memes) |->
                 \/ keyword = memes[n].key
                 \/ \E i \in 1..Len(memes[n].keywords) :
                        memes[n].keywords[i] = keyword])

\* leftmost position at which k occurs in t (Len(t) + 1 when it does not)
FirstPos(k, t) ==
    IF IsSubstring(k, t)
    THEN CHOOSE i \in 0..Len(t) :
            /\ i + Len(k) <= Len(t)
            /\ \A j \in 1..Len(k) : t[i + j] = k[j]
            /\ \A g \in 0..(i - 1) : \E j \in 1..Len(k) : t[g + j] # k[j]
    ELSE Len(t) + 1

\* a faulty variant: in fuzzy mode the keyword that occurs leftmost in the text wins
match_leftmost(text, fuzzy_match) ==
    IF fuzzy_match
    THEN FirstHit(meme_keywords,
                  [i \in 1..Len(meme_keywords) |->
                      /\ IsSubstring(meme_keywords[i], text)
                      /\ \A j \in 1..Len(meme_keywords) :
                            FirstPos(meme_keywords[i], text)
                                <= FirstPos(meme_keywords[j], text)])
    ELSE IF meme_keywords = <<>> THEN None
    ELSE IF SplitWs(text, <<>>) = <<>> THEN Raised("IndexError")
    ELSE FirstHit(meme_keywords,
                  [i \in 1..Len(meme_keywords) |->
                      meme_keywords[i] = SplitWs(text, <<>>)[1]])

\* MemeManager.match_meme_keyword.  In exact mode the generator evaluates
\* text.split()[0] for each keyword, which raises IndexError when the text
\* has no token.
match_meme_keyword(text, fuzzy_match) ==
    IF fuzzy_match
    THEN FirstHit(meme_keywords,
                  [i \in 1..Len(meme_keywords) |->
                      IsSubstring(meme_keywords[i], text)])
    ELSE IF meme_keywords = <<>> THEN None
    ELSE IF SplitWs(text, <<>>) = <<>> THEN Raised("IndexError")
    ELSE FirstHit(meme_keywords,
                  [i \in 1..Len(meme_keywords) |->
                      meme_keywords[i] = SplitWs(text, <<>>)[1]])

-----------------------------------------------------------------------------
(* The matcher called on its own *)

Alphabet == {"a", "b", " "}

InitMatch ==
    /\ m_text \in SeqsUpTo(Alphabet, MaxTextLen)
    /\ m_fuzzy \in BOOLEAN
    /\ m_result = Unset
    /\ c_pc = "idle" /\ ev = NoCollectEvent /\ params = NoParams
    /\ queue = <<>> /\ toks = <<>> /\ images = <<>> /\ texts = <<>>
    /\ options = <<>> /\ fetched = NoFetch /\ result = Unset
    /\ conf = NoConf /\ saved = <<>> /\ h = Idle /\ cmd = NoCmd
    /\ probe = NoEvent /\ trip = NoTrip

Match ==
    /\ m_result = Unset
    /\ m_result' = match_meme_keyword(m_text, m_fuzzy)
    /\ UNCHANGED <<m_text, m_fuzzy, c_vars, p_vars>>

-----------------------------------------------------------------------------
(* Messages: the segments of a chain (astrbot components Image, At, Plain, *)
(* Reply), all of one record shape                                         *)

Seg(type, src, qq, text, chain, nick, sid) ==
    [type |-> type, src |-> src, qq |-> qq, text |-> text, chain |-> chain,
     sender_nickname |-> nick, sender_id |-> sid]

\* Image(url or file = src).  src is named by what _decode_image makes of it:
\* "http" an http(s) URL, "base64" a base64:// payload, "file" a local file,
\* "other" any other non-empty string, "" neither url nor file set.
ImageSeg(src) == Seg("Image", src, <<>>, <<>>, <<>>, <<>>, <<>>)
AtSeg(qq) == Seg("At", "", qq, <<>>, <<>>, <<>>, <<>>)
PlainSeg(text) == Seg("Plain", "", <<>>, text, <<>>, <<>>, <<>>)
ReplySeg(chain, nick, sid) == Seg("Reply", "", <<>>, <<>>, chain, nick, sid)

\* " k s=3 @2  y z ": padded; after the command an option, an inline
\* mention, an empty token and two texts
TextOpts ==
    <<" ", "k", " ", "s", "=", "3", " ", "@", "2", " ", " ", "y", " ", "z", " ">>
\* "caption": a single token
TextCaption == <<"c", "a", "p", "t", "i", "o", "n">>
\* "r @x w": an inline mention that is not a number, and a text
TextReply == <<"r", " ", "@", "x", " ", "w">>

SegSet ==
    { ImageSeg("http"), AtSeg(<<"2">>), PlainSeg(TextOpts), PlainSeg(TextCaption),
      ReplySeg(<<AtSeg(<<"1">>), ImageSeg("base64"), PlainSeg(TextReply)>>,
               <<>>, <<"1">>) }

Chains == SeqsUpTo(SegSet, MaxChain)

\* platform name, sender id, bot id of the event
Profiles ==
    { [platform |-> "aiocqhttp", send_id |-> <<"1">>, self_id |-> <<"2">>],
      [platform |-> "other", send_id |-> <<"1">>, self_id |-> <<"b">>],
      [platform |-> "other", send_id |-> <<"u">>, self_id |-> <<"2">>] }

sender_name == <<"S">>

DefaultTexts == { <<>>, << <<"d">>, <<"e">> >> }

\* the constraint sets of the rendering library: min <= max
ParamSets ==
    { Params(q[1], q[2], q[3], q[4], dt) :
        q \in { r \in (0..MaxCount) \X (0..MaxCount) \X (0..MaxCount) \X (0..MaxCount) :
                  r[1] <= r[2] /\ r[3] <= r[4] },
        dt \in DefaultTexts }

-----------------------------------------------------------------------------
(* ParamsCollector *)

\* an entry of images: (name, bytes); via records which statement added it
Img(name, data, via) == [name |-> name, data |-> data, via |-> via]

AvatarBytes(user_id) == <<"avatar">> \o user_id

\* options[k] = v
Put(o, k, v) == [x \in (DOMAIN o) \cup {k} |-> IF x = k THEN v ELSE o[x]]

NameKey == <<"n", "a", "m", "e">>
GenderKey == <<"g", "e", "n", "d", "e", "r">>
Nickname(user_id) == <<"N">> \o user_id
Sex == <<"m">>

\* _download_image: the bytes read, or None when the request raised.  Empty
\* bytes are falsy for every caller, as None is.
DownloadOutcomes == {"bytes", "none"}

\* get_avatar: a user id that is not a number reaches random.randint, but
\* `random` is the function random.random (param.py line 3), so the call
\* raises AttributeError before any download.
get_avatar(user_id, o) ==
    IF ~IsDigit(user_id) THEN Raised("AttributeError")
    ELSE IF o = "bytes" THEN Some(AvatarBytes(user_id))
    ELSE None

\* _decode_image, by kind of src.  A local file is read without a try, and
\* base64.b64decode raises on a malformed payload; an empty file or payload
\* gives empty bytes, which the caller skips as it skips None.
DecodeOutcomes(src) ==
    CASE src = "file" -> {"bytes", "none", "raise"}
      [] src = "http" -> DownloadOutcomes
      [] src = "base64" -> {"bytes", "none", "raise"}
      [] OTHER -> {"none"}

_decode_image(src, o) ==
    CASE o = "bytes" -> Some(<<"img", src>>)
      [] o = "raise" -> Raised(IF src = "file" THEN "OSError" ELSE "binascii.Error")
      [] OTHER -> None

\* get_extra: (nickname, sex) on aiocqhttp, None on any other platform;
\* int(target_id) and the platform call are not guarded.
LookupOutcomes == {"ok", "raise"}

get_extra(platform, target_id, o) ==
    IF platform # "aiocqhttp" THEN None
    ELSE IF ~IsDigit(target_id) THEN Raised("ValueError")
    ELSE IF o = "raise" THEN Raised("ApiError")
    ELSE Some(<<Nickname(target_id), Sex>>)

\* _append_id_info: the new <<images, options, raised>>
_append_id_info(platform, target_id, imgs, opts, lo, ao) ==
    LET r == get_extra(platform, target_id, lo)
        av == get_avatar(target_id, ao)
        o2 == Put(Put(opts, NameKey, r.val[1]), GenderKey, r.val[2])
    IN  CASE r.kind = "Raised" -> <<imgs, opts, r>>
          [] r.kind = "None" -> <<imgs, opts, None>>
          [] OTHER ->
               CASE av.kind = "Raised" -> <<imgs, o2, av>>
                 [] av.kind = "Some" ->
                      <<Append(imgs, Img(r.val[1], av.val, "mention")), o2, None>>
                 [] OTHER -> <<imgs, o2, None>>

\* next((seg for seg in chain if isinstance(seg, Reply)), None)
reply_seg(chain) ==
    FirstHit(chain, [i \in 1..Len(chain) |-> chain[i].type = "Reply"])

\* the segments collect_params processes, each with the name it is given:
\* those of the replied message first, then those of the chain
Labelled(segs, name) == [i \in 1..Len(segs) |-> [seg |-> segs[i], name |-> name]]

Worklist(chain) ==
    LET r == reply_seg(chain)
    IN  (IF r.kind = "Some" /\ r.val.chain # <<>>
         THEN Labelled(r.val.chain,
                       IF r.val.sender_nickname # <<>>
                       THEN r.val.sender_nickname ELSE r.val.sender_id)
         ELSE <<>>)
        \o Labelled(chain, sender_name)

InitCollect ==
    /\ ev \in { [chain |-> c, platform |-> p.platform, send_id |-> p.send_id,
                 self_id |-> p.self_id] : c \in Chains, p \in Profiles }
    /\ params \in ParamSets
    /\ c_pc = "start"
    /\ queue = <<>>
    /\ toks = <<>>
    /\ images = <<>>
    /\ texts = <<>>
    /\ options = <<>>
    /\ fetched = NoFetch
    /\ result = Unset
    /\ m_text = <<>> /\ m_fuzzy = FALSE /\ m_result = Unset
    /\ conf = NoConf /\ saved = <<>> /\ h = Idle /\ cmd = NoCmd
    /\ probe = NoEvent /\ trip = NoTrip

Raise(e) ==
    /\ c_pc' = "raised"
    /\ result' = e

\* lines 86-93 and 120-126: the locals and the order of the segments
Begin ==
    /\ c_pc = "start"
    /\ queue' = Worklist(ev.chain)
    /\ c_pc' = "segments"
    /\ UNCHANGED <<ev, params, toks, images, texts, options, fetched, result>>
    /\ UNCHANGED <<m_vars, p_vars>>

\* _process_segment of an Image segment
SegImage(seg, name) ==
    /\ \E o \in DecodeOutcomes(seg.src) :
          LET image == _decode_image(seg.src, o)
          IN  IF seg.src = "" \/ image.kind = "None"
              THEN UNCHANGED <<c_pc, images, result>>
              ELSE IF image.kind = "Raised"
              THEN Raise(image) /\ UNCHANGED images
              ELSE /\ images' = Append(images, Img(name, image.val, "segment"))
                   /\ UNCHANGED <<c_pc, result>>
    /\ UNCHANGED <<toks, texts, options>>

\* _append_id_info as a step of collect_params
AppendIdInfo(target_id) ==
    \E lo \in LookupOutcomes, ao \in DownloadOutcomes :
        LET r == _append_id_info(ev.platform, target_id, images, options, lo, ao)
        IN  /\ images' = r[1]
            /\ options' = r[2]
            /\ IF r[3].kind = "Raised" THEN Raise(r[3])
               ELSE UNCHANGED <<c_pc, result>>

\* a faulty variant: the first segment is not told apart
AnySeg(seg, chain) == TRUE

\* seg != chain[0], compared by value as the components compare
NotFirst(seg, chain) == seg # chain[1]

\* _process_segment, up to the loop over the tokens of a Plain
ProcessSegment ==
    /\ c_pc = "segments"
    /\ toks = <<>>
    /\ queue # <<>>
    /\ queue' = Tail(queue)
    /\ LET seg == Head(queue).seg
           name == Head(queue).name
       IN  CASE seg.type = "Image" -> SegImage(seg, name)
             [] seg.type = "At" /\ NotFirst(seg, ev.chain) ->
                  AppendIdInfo(seg.qq) /\ UNCHANGED <<toks, texts>>
             [] seg.type = "Plain" ->
                  LET plains == SplitOn(Strip(seg.text), " ", <<>>)
                  IN  /\ toks' = IF Len(plains) > 1 THEN Tail(plains) ELSE <<>>
                      /\ UNCHANGED <<c_pc, images, texts, options, result>>
             [] OTHER ->
                  UNCHANGED <<c_pc, toks, images, texts, options, result>>
    /\ UNCHANGED <<ev, params, fetched, m_vars, p_vars>>

\* one turn of `for text in plains[1:]`
ProcessToken ==
    /\ c_pc = "segments"
    /\ toks # <<>>
    /\ toks' = Tail(toks)
    /\ LET text == Head(toks)
       IN  IF "=" \in {text[i] : i \in 1..Len(text)}
           THEN /\ options' = Put(options, SplitFirst(text, "=", <<>>)[1],
                                  SplitFirst(text, "=", <<>>)[2])
                /\ UNCHANGED <<c_pc, images, texts, result>>
           ELSE IF StartsWith(text, <<"@">>)
           THEN IF IsDigit(Tail(text))
                THEN AppendIdInfo(Tail(text)) /\ UNCHANGED texts
                ELSE UNCHANGED <<c_pc, images, texts, options, result>>
           ELSE IF text # <<>>
           THEN /\ texts' = Append(texts, text)
                /\ UNCHANGED <<c_pc, images, options, result>>
           ELSE UNCHANGED <<c_pc, images, texts, options, result>>
    /\ UNCHANGED <<ev, params, queue, fetched, m_vars, p_vars>>

\* a faulty variant: the avatar is appended
InsertLast(imgs, img) == Append(imgs, img)

\* images.insert(0, img)
InsertFirst(imgs, img) == <<img>> \o imgs

\* lines 129-131: the sender's avatar, put first
FallbackSender ==
    /\ c_pc = "segments"
    /\ toks = <<>>
    /\ queue = <<>>
    /\ IF Len(images) < params.min_images
       THEN \E o \in DownloadOutcomes :
               LET sender_avatar == get_avatar(ev.send_id, o)
               IN  /\ fetched' = [fetched EXCEPT !.sender = @ + 1]
                   /\ CASE sender_avatar.kind = "Raised" ->
                             Raise(sender_avatar) /\ UNCHANGED images
                        [] sender_avatar.kind = "Some" ->
                             /\ images' = InsertFirst(images,
                                              Img(sender_name, sender_avatar.val,
                                                  "sender"))
                             /\ c_pc' = "bot_avatar"
                             /\ UNCHANGED result
                        [] OTHER ->
                             /\ c_pc' = "bot_avatar"
                             /\ UNCHANGED <<images, result>>
       ELSE /\ c_pc' = "bot_avatar"
            /\ UNCHANGED <<images, fetched, result>>
    /\ UNCHANGED <<ev, params, queue, toks, texts, options, m_vars, p_vars>>

\* lines 132-134: the bot's avatar, put first
FallbackBot ==
    /\ c_pc = "bot_avatar"
    /\ IF Len(images) < params.min_images
       THEN \E o \in DownloadOutcomes :
               LET bot_avatar == get_avatar(ev.self_id, o)
               IN  /\ fetched' = [fetched EXCEPT !.bot = @ + 1]
                   /\ CASE bot_avatar.kind = "Raised" ->
                             Raise(bot_avatar) /\ UNCHANGED images
                        [] bot_avatar.kind = "Some" ->
                             /\ images' = InsertFirst(images,
                                              Img(<<"b", "o", "t">>, bot_avatar.val,
                                                  "bot"))
                             /\ c_pc' = "truncate"
                             /\ UNCHANGED result
                        [] OTHER ->
                             /\ c_pc' = "truncate"
                             /\ UNCHANGED <<images, result>>
       ELSE /\ c_pc' = "truncate"
            /\ UNCHANGED <<images, fetched, result>>
    /\ UNCHANGED <<ev, params, queue, toks, texts, options, m_vars, p_vars>>

\* xs[:n] for n >= 0
Prefix(xs, n) == SubSeq(xs, 1, IF n < Len(xs) THEN n ELSE Len(xs))

\* a faulty variant: the cut keeps one image too many
TruncateOneMore(imgs, p) == Prefix(imgs, p.max_images + 1)

\* line 135
TruncateImages(imgs, p) == Prefix(imgs, p.max_images)

\* a faulty variant: the defaults are appended whenever there are any
FillAlways(txts, p) ==
    Prefix(IF p.default_texts # <<>> THEN txts \o p.default_texts ELSE txts,
           p.max_texts)

\* lines 138-140
FillTexts(txts, p) ==
    Prefix(IF Len(txts) < p.min_texts /\ p.default_texts # <<>>
           THEN txts \o p.default_texts ELSE txts,
           p.max_texts)

\* lines 135-142.  images and texts keep the lists as they were before the
\* cut; the lists returned are in result.
Finish ==
    /\ c_pc = "truncate"
    /\ c_pc' = "done"
    /\ result' = Some([images |-> TruncateImages(images, params),
                       texts |-> FillTexts(texts, params),
                       options |-> options])
    /\ UNCHANGED <<ev, params, queue, toks, images, texts, options, fetched>>
    /\ UNCHANGED <<m_vars, p_vars>>

NextCollect ==
    \/ Begin
    \/ ProcessSegment
    \/ ProcessToken
    \/ FallbackSender
    \/ FallbackBot
    \/ Finish

-----------------------------------------------------------------------------
(* MemePlugin *)

\* x in xs, for a list
InList(x, xs) == \E i \in 1..Len(xs) : xs[i] = x

\* xs.remove(x): the first occurrence goes
RECURSIVE Remove(_, _)
Remove(xs, x) ==
    IF xs = <<>> THEN <<>>
    ELSE IF Head(xs) = x THEN Tail(xs)
    ELSE <<Head(xs)>> \o Remove(Tail(xs), x)

\* message_str of the messages the plugin receives
MsgTexts ==
    { <<>>, <<" ">>, <<"a", "b">>, <<"b", " ", "x">>, <<"/", "a", "b">>, <<"x">> }

Events ==
    [message_str : MsgTexts, is_at_or_wake_command : {TRUE}]
    \cup [message_str : {<<"a", "b">>}, is_at_or_wake_command : {FALSE}]

\* meme_name of a command: missing, an unknown word, a keyword
Names == {<<>>, <<"z">>} \cup KeywordSet

Configs ==
    [need_prefix : BOOLEAN, extra_prefix : {<<>>, <<"/">>},
     fuzzy_match : BOOLEAN, memes_disabled_list : {<<>>}]

Init ==
    /\ conf \in Configs
    /\ saved = conf.memes_disabled_list
    /\ h = Idle
    /\ cmd = NoCmd
    /\ probe \in Events
    /\ trip = NoTrip
    /\ m_text = <<>> /\ m_fuzzy = FALSE /\ m_result = Unset
    /\ c_pc = "idle" /\ ev = NoCollectEvent /\ params = NoParams
    /\ queue = <<>> /\ toks = <<>> /\ images = <<>> /\ texts = <<>>
    /\ options = <<>> /\ fetched = NoFetch /\ result = Unset

\* a faulty variant: a disabled keyword is appended again
add_supervisor_again(meme_name, disabled) ==
    IF meme_name = <<>> THEN [reply |-> "unspecified", list |-> disabled, save |-> FALSE]
    ELSE IF ~is_meme_keyword(meme_name)
    THEN [reply |-> "not_exist", list |-> disabled, save |-> FALSE]
    ELSE [reply |-> "disabled", list |-> Append(disabled, meme_name), save |-> TRUE]

\* add_supervisor: the reply and whether the list is appended to and saved
add_supervisor(meme_name, disabled) ==
    IF meme_name = <<>> THEN [reply |-> "unspecified", list |-> disabled, save |-> FALSE]
    ELSE IF ~is_meme_keyword(meme_name)
    THEN [reply |-> "not_exist", list |-> disabled, save |-> FALSE]
    ELSE IF InList(meme_name, disabled)
    THEN [reply |-> "already_disabled", list |-> disabled, save |-> FALSE]
    ELSE [reply |-> "disabled", list |-> Append(disabled, meme_name), save |-> TRUE]

\* remove_supervisor
remove_supervisor(meme_name, disabled) ==
    IF meme_name = <<>> THEN [reply |-> "unspecified", list |-> disabled, save |-> FALSE]
    ELSE IF ~is_meme_keyword(meme_name)
    THEN [reply |-> "not_exist", list |-> disabled, save |-> FALSE]
    ELSE IF ~InList(meme_name, disabled)
    THEN [reply |-> "not_disabled", list |-> disabled, save |-> FALSE]
    ELSE [reply |-> "enabled", list |-> Remove(disabled, meme_name), save |-> TRUE]

\* the command "禁用meme <meme_name>"
Disable ==
    \E meme_name \in Names :
        LET r == add_supervisor(meme_name, conf.memes_disabled_list)
        IN  /\ conf' = [conf EXCEPT !.memes_disabled_list = r.list]
            /\ saved' = IF r.save THEN r.list ELSE saved
            /\ cmd' = [op |-> "disable", meme_name |-> meme_name,
                       reply |-> r.reply, saved |-> r.save,
                       before |-> conf.memes_disabled_list]
            /\ trip' = IF r.save /\ meme_name = trip.keyword
                          /\ trip.phase \in {"dispatched", "enabled"}
                       THEN [trip EXCEPT !.phase = "disabled"] ELSE trip
            /\ UNCHANGED <<h, probe, m_vars, c_vars>>

\* the command "启用meme <meme_name>"
Enable ==
    \E meme_name \in Names :
        LET r == remove_supervisor(meme_name, conf.memes_disabled_list)
        IN  /\ conf' = [conf EXCEPT !.memes_disabled_list = r.list]
            /\ saved' = IF r.save THEN r.list ELSE saved
            /\ cmd' = [op |-> "enable", meme_name |-> meme_name,
                       reply |-> r.reply, saved |-> r.save,
                       before |-> conf.memes_disabled_list]
            /\ trip' = IF r.save /\ meme_name = trip.keyword
                          /\ trip.phase = "disabled"
                       THEN [trip EXCEPT !.phase = "enabled"] ELSE trip
            /\ UNCHANGED <<h, probe, m_vars, c_vars>>

\* a faulty variant: the disabled list is not consulted
DecideUnchecked(e, c) ==
    LET param == RemovePrefix(e.message_str, c.extra_prefix)
        keyword == match_meme_keyword(param, c.fuzzy_match)
    IN  IF c.need_prefix /\ ~e.is_at_or_wake_command THEN <<"return", None>>
        ELSE IF c.extra_prefix # <<>> /\ ~StartsWith(e.message_str, c.extra_prefix)
        THEN <<"return", None>>
        ELSE IF param = <<>> THEN <<"return", None>>
        ELSE IF keyword.kind = "Raised" THEN <<"raise", keyword>>
        ELSE IF keyword.kind = "None" THEN <<"return", keyword>>
        ELSE <<"generate", keyword>>

\* meme_handle, lines 102-117: what the handler decides before it awaits.
\* "return" ends it with no response, "raise" is match_meme_keyword's
\* exception leaving the handler, "generate" goes on to generate_meme.
Decide(e, c) ==
    LET param == RemovePrefix(e.message_str, c.extra_prefix)
        keyword == match_meme_keyword(param, c.fuzzy_match)
    IN  IF c.need_prefix /\ ~e.is_at_or_wake_command THEN <<"return", None>>
        ELSE IF c.extra_prefix # <<>> /\ ~StartsWith(e.message_str, c.extra_prefix)
        THEN <<"return", None>>
        ELSE IF param = <<>> THEN <<"return", None>>
        ELSE IF keyword.kind = "Raised" THEN <<"raise", keyword>>
        ELSE IF keyword.kind = "None" \/ InList(keyword.val, c.memes_disabled_list)
        THEN <<"return", keyword>>
        ELSE <<"generate", keyword>>

\* a message arrives and meme_handle runs up to its await
meme_handle ==
    /\ h.pc # "generating"
    /\ \E e \in Events :
          LET d == Decide(e, conf)
              go == d[1] = "generate"
          IN  /\ h' = [pc |-> IF go THEN "generating" ELSE "done",
                       probe |-> e = probe,
                       keyword |-> d[2], trip |-> trip.phase,
                       dispatched |-> go,
                       outcome |-> IF go THEN "pending" ELSE d[1],
                       responses |-> <<>>]
              /\ trip' = IF go /\ e = probe /\ trip.phase = "idle"
                         THEN [phase |-> "dispatched", keyword |-> d[2].val]
                         ELSE trip
    /\ UNCHANGED <<conf, saved, cmd, probe, m_vars, c_vars>>

\* generate_meme returns before the deadline: bytes, or None (no meme found,
\* or nothing rendered); lines 133-140 answer with the image if there is one
EmitAfter(image) == IF image.kind = "Some" THEN <<"image">> ELSE <<>>

GenerateReturns ==
    /\ h.pc = "generating"
    /\ \E rendered \in {Some(<<"png">>), None} :
          LET image == IF find_meme(h.keyword.val).kind = "None" THEN None
                       ELSE rendered
          IN  h' = [h EXCEPT !.pc = "done",
                             !.outcome = "returned",
                             !.responses = EmitAfter(image)]
    /\ UNCHANGED <<conf, saved, cmd, probe, trip, m_vars, c_vars>>

\* generate_meme raises before the deadline (collect_params or the render
\* call): lines 129-131 log it and answer nothing
GenerateRaises ==
    /\ h.pc = "generating"
    /\ h' = [h EXCEPT !.pc = "done", !.outcome = "raised", !.responses = <<>>]
    /\ UNCHANGED <<conf, saved, cmd, probe, trip, m_vars, c_vars>>

\* a faulty variant: the timeout is swallowed like any other exception
EmitNothing == <<>>

\* lines 125-128: meme_timeout expires first, wait_for cancels generate_meme
EmitTimeout == <<"timed_out">>

Timeout ==
    /\ h.pc = "generating"
    /\ h' = [h EXCEPT !.pc = "done", !.outcome = "timeout",
                       !.responses = EmitTimeout]
    /\ UNCHANGED <<conf, saved, cmd, probe, trip, m_vars, c_vars>>

Next ==
    \/ Disable
    \/ Enable
    \/ meme_handle
    \/ GenerateReturns
    \/ GenerateRaises
    \/ Timeout

-----------------------------------------------------------------------------
(* Specifications *)

NextMatch == Match

Spec == Init /\ [][Next]_vars
SpecCollect == InitCollect /\ [][NextCollect]_vars
SpecMatch == InitMatch /\ [][NextMatch]_vars

-----------------------------------------------------------------------------
(* Properties of ParamsCollector.collect_params, under SpecCollect *)

Returned == result.kind = "Some"

IsFallback(img) == img.via \in {"sender", "bot"}

CountWhere(xs, S) == Cardinality({i \in 1..Len(xs) : xs[i].via \in S})

\* C1: the lists collect_params returns hold at most max_images images and
\* at most max_texts texts, whatever the message, the constraint set and the
\* outcomes of the fetches.
C1_WithinMaxima ==
    Returned =>
        /\ Len(result.val.images) <= params.max_images
        /\ Len(result.val.texts) <= params.max_texts

\* both lists were longer than their maximum before the cut
C1_Witness ==
    /\ Returned
    /\ params.max_images > 0
    /\ Len(images) > params.max_images
    /\ Len(texts) > params.max_texts

C3_NeverRaises == result.kind # "Raised"

MentionFirst == <<AtSeg(<<"2">>), PlainSeg(TextCaption)>>

\* C6 as stated: a first-segment mention is never resolved, and the chain
\* [Mention(self), PlainText("caption")] with min_images = 0 gives no image,
\* texts = ["caption"] and no option.
C6_CaptionKept ==
    (Returned /\ ev.chain = MentionFirst /\ params.min_images = 0) =>
        /\ result.val.images = <<>>
        /\ result.val.texts = <<TextCaption>>
        /\ result.val.options = <<>>

\* no mention but the first segment: no Reply, no Plain with an @ token,
\* every At equal to the first segment
OnlyFirstMentions(chain) ==
    /\ chain # <<>>
    /\ chain[1].type = "At"
    /\ \A i \in 1..Len(chain) :
          \/ chain[i].type = "Image"
          \/ chain[i] = chain[1]
          \/ chain[i].type = "Plain" /\ "@" \notin {chain[i].text[n] : n \in 1..Len(chain[i].text)}

\* C6 as the code has it: a mention that is the first segment is never
\* resolved (no avatar appended, no name or gender option); for the chain
\* [Mention(self), PlainText("caption")] with min_images = 0 the returned
\* images and options are empty and "caption", the only token of the Plain,
\* is dropped as the command word: texts is empty, or holds the default
\* texts cut to max_texts when min_texts > 0 and there are default texts.
C6_FirstMentionSkipped ==
    /\ OnlyFirstMentions(ev.chain) =>
          /\ CountWhere(images, {"mention"}) = 0
          /\ NameKey \notin DOMAIN options
          /\ GenderKey \notin DOMAIN options
    /\ (Returned /\ ev.chain = MentionFirst /\ params.min_images = 0) =>
          /\ result.val.images = <<>>
          /\ result.val.options = <<>>
          /\ result.val.texts =
                IF params.min_texts > 0 /\ params.default_texts # <<>>
                THEN SubSeq(params.default_texts, 1,
                            IF params.max_texts < Len(params.default_texts)
                            THEN params.max_texts ELSE Len(params.default_texts))
                ELSE <<>>

\* the scenario has run on the platform that resolves mentions
C6_Witness ==
    /\ Returned
    /\ ev.chain = MentionFirst
    /\ ev.platform = "aiocqhttp"
    /\ ev.self_id = <<"2">>
    /\ params.min_images = 0
    /\ params.min_texts = 0
    /\ result.val.texts = <<>>

\* the tokens of a Plain that collect_params takes as texts
IsTextToken(t) ==
    /\ t # <<>>
    /\ "=" \notin {t[n] : n \in 1..Len(t)}
    /\ t[1] # "@"

TextTokens(seg) ==
    IF seg.type = "Plain"
    THEN SelectSeq(Tail(SplitOn(Strip(seg.text), " ", <<>>)), IsTextToken)
    ELSE <<>>

TokensOfChain(chain) == Flatten([i \in 1..Len(chain) |-> TextTokens(chain[i])])

\* the tokens of the replied message, then those of the message
ExtractedTexts(chain) ==
    (IF \E i \in 1..Len(chain) : chain[i].type = "Reply"
     THEN TokensOfChain(chain[CHOOSE i \in 1..Len(chain) :
                                 /\ chain[i].type = "Reply"
                                 /\ \A j \in 1..(i - 1) : chain[j].type # "Reply"].chain)
     ELSE <<>>)
    \o TokensOfChain(chain)

FirstN(xs, n) == [i \in 1..(IF n < Len(xs) THEN n ELSE Len(xs)) |-> xs[i]]

\* C7: the default texts are appended after the extracted tokens only when
\* fewer than min_texts were extracted and there are default texts; in every
\* other case the returned texts are the extracted tokens in message order;
\* either way cut to max_texts.
C7_TextBackfill ==
    Returned =>
        LET ext == ExtractedTexts(ev.chain)
        IN  IF Len(ext) < params.min_texts /\ params.default_texts # <<>>
            THEN result.val.texts = FirstN(ext \o params.default_texts, params.max_texts)
            ELSE result.val.texts = FirstN(ext, params.max_texts)

\* one token was extracted, two are required: the defaults follow it
C7_Witness ==
    /\ Returned
    /\ Len(texts) = 1
    /\ params.min_texts = 2
    /\ params.max_texts = 2
    /\ params.default_texts # <<>>
    /\ result.val.texts = <<texts[1], params.default_texts[1]>>

-----------------------------------------------------------------------------
(* Properties of MemeManager.match_meme_keyword, under SpecMatch *)

\* k occurs in t: t is some prefix, then k, then some suffix
Occurs(k, t) ==
    \E i \in 0..Len(t) :
        /\ i + Len(k) <= Len(t)
        /\ SubSeq(t, i + 1, i + Len(k)) = k

\* C8: in fuzzy mode the result is the keyword of smallest catalog index
\* among those that occur in the text, wherever they occur and however long
\* they are, and none when no keyword occurs.
C8_FuzzyFirstInCatalog ==
    (m_fuzzy /\ m_result # Unset) =>
        IF \E i \in 1..Len(meme_keywords) : Occurs(meme_keywords[i], m_text)
        THEN \E i \in 1..Len(meme_keywords) :
                /\ m_result = Some(meme_keywords[i])
                /\ Occurs(meme_keywords[i], m_text)
                /\ \A j \in 1..(i - 1) : ~Occurs(meme_keywords[j], m_text)
        ELSE m_result = None

\* "ab" holds both keywords; "b", the earlier in the catalog, is returned
\* though it is shorter and occurs later in the text than "ab"
C8_Witness ==
    /\ m_fuzzy
    /\ m_text = <<"a", "b">>
    /\ m_result = Some(<<"b">>)

\* C9: match_meme_keyword never raises: it returns a catalog keyword or
\* none for every text, the empty and the all-whitespace ones included, and
\* in exact mode the keyword returned is the first whitespace-delimited
\* token of the text.
C9_NeverRaises ==
    m_result # Unset =>
        /\ m_result = None \/ (m_result.kind = "Some" /\ m_result.val \in KeywordSet)
        /\ (~m_fuzzy /\ m_result.kind = "Some") =>
              /\ SplitWs(m_text, <<>>) # <<>>
              /\ m_result.val = SplitWs(m_text, <<>>)[1]

-----------------------------------------------------------------------------
(* Properties of MemePlugin, under Spec *)

DisabledList == conf.memes_disabled_list

\* C4: once the probe message has been dispatched by matching keyword k,
\* every arrival of the same message after a disable command for k (and
\* before an enable command for k) starts no generation and is answered by
\* nothing, and every arrival after the enable command for k that follows
\* starts a generation again.  h.trip is the phase of the round trip at the
\* arrival of the message h describes.
C4_DisableRoundTrip ==
    h.probe =>
        /\ h.trip = "disabled" =>
              /\ ~h.dispatched
              /\ h.pc = "done"
              /\ h.responses = <<>>
        /\ h.trip = "enabled" => h.dispatched

\* the probe message arrived after keyword k was disabled and enabled again
C4_Witness ==
    /\ h.probe
    /\ h.trip = "enabled"
    /\ h.dispatched
    /\ h.outcome = "returned"
    /\ h.responses = <<"image">>
    /\ conf.fuzzy_match

\* C5: a generation cut by the timeout is answered by the timed-out text
\* alone, never by an image, and the handler is over (no retry); a
\* generation that ends before the timeout is never answered by the
\* timed-out text.
C5_TimeoutAnswer ==
    /\ h.outcome = "timeout" =>
          /\ h.responses = <<"timed_out">>
          /\ h.pc = "done"
    /\ h.outcome # "timeout" =>
          \A i \in 1..Len(h.responses) : h.responses[i] # "timed_out"

\* a generation timed out
C5_Witness ==
    /\ h.dispatched
    /\ h.outcome = "timeout"
    /\ h.responses = <<"timed_out">>

NoDuplicates(xs) == \A i, j \in 1..Len(xs) : xs[i] = xs[j] => i = j

\* C10: the disabled list never holds a duplicate nor a word that is not a
\* catalog keyword; a disable of a missing, unknown or already disabled
\* name, and an enable of a missing, unknown or not disabled name, leaves
\* the list as it was and does not save the configuration.  cmd.before is
\* the list as the last command found it.
C10_DisabledListSound ==
    /\ NoDuplicates(DisabledList)
    /\ \A i \in 1..Len(DisabledList) : DisabledList[i] \in KeywordSet
    /\ saved = DisabledList
    /\ (/\ cmd.op = "disable"
        /\ \/ cmd.meme_name = <<>>
           \/ cmd.meme_name \notin KeywordSet
           \/ \E i \in 1..Len(cmd.before) : cmd.before[i] = cmd.meme_name)
          => (DisabledList = cmd.before /\ ~cmd.saved)
    /\ (/\ cmd.op = "enable"
        /\ \/ cmd.meme_name = <<>>
           \/ cmd.meme_name \notin KeywordSet
           \/ \A i \in 1..Len(cmd.before) : cmd.before[i] # cmd.meme_name)
          => (DisabledList = cmd.before /\ ~cmd.saved)

\* a keyword already in a list of two is disabled once more
C10_Witness ==
    /\ cmd.op = "disable"
    /\ cmd.reply = "already_disabled"
    /\ Len(DisabledList) = 2
    /\ DisabledList = cmd.before

=============================================================================
